---- MODULE Spec2Model ----
(***************************************************************************)
(* AI image detector: the POST /api/detect route handler (provider chain,  *)
(* result normalisation, fallback heuristic) and the Detector client       *)
(* widget (onFiles, analyze, toDisplay).                                   *)
(*                                                                         *)
(* Conventions.  A JavaScript value is a record with a kind.  A number is  *)
(* kept as twice its value, so that the halves Math.round decides on are   *)
(* integers.  Strings are TLA+ strings, read character by character with   *)
(* Len and SubSeq.  A 32-bit unsigned hash is a pair of 16-bit limbs.      *)
(***************************************************************************)
EXTENDS Integers, Sequences, FiniteSets, TLC

\* ------------------------------------------------------------------ bounds
\* longest OPENROUTER_MODEL value
MaxModelLen == 3

\* --------------------------------------------------------- program constants
MAX_SIZE_BYTES == 5 * 1024 * 1024
maxBytes == 6 * 1024 * 1024

\* ------------------------------------------------------- JavaScript values
JsNum(t) == [kind |-> "number", twice |-> t, str |-> ""]
JsStr(s) == [kind |-> "string", twice |-> 0, str |-> s]
JsNaN == [kind |-> "nan", twice |-> 0, str |-> ""]
JsUndef == [kind |-> "undefined", twice |-> 0, str |-> ""]

Min(a, b) == IF a < b THEN a ELSE b
Max(a, b) == IF a > b THEN a ELSE b

\* s.startsWith(p)
StartsWith(s, p) == Len(s) >= Len(p) /\ SubSeq(s, 1, Len(p)) = p

\* s.slice(0, n)
Slice0(s, n) == SubSeq(s, 1, Min(n, Len(s)))

RECURSIVE TrimLeft(_)
TrimLeft(s) ==
  IF Len(s) > 0 /\ Head(s) = " " THEN TrimLeft(SubSeq(s, 2, Len(s))) ELSE s

RECURSIVE TrimRight(_)
TrimRight(s) ==
  IF Len(s) > 0 /\ SubSeq(s, Len(s), Len(s)) = " "
  THEN TrimRight(SubSeq(s, 1, Len(s) - 1)) ELSE s

\* s.trim()
Trim(s) == TrimRight(TrimLeft(s))

Digits == {"0", "1", "2", "3", "4", "5", "6", "7", "8", "9"}

DigitVal(c) ==
  CASE c = "0" -> 0 [] c = "1" -> 1 [] c = "2" -> 2 [] c = "3" -> 3
    [] c = "4" -> 4 [] c = "5" -> 5 [] c = "6" -> 6 [] c = "7" -> 7
    [] c = "8" -> 8 [] c = "9" -> 9

AllDigits(s) == \A i \in 1..Len(s) : SubSeq(s, i, i) \in Digits

RECURSIVE DecimalValue(_)
DecimalValue(s) ==
  IF Len(s) = 0 THEN 0
  ELSE 10 * DecimalValue(SubSeq(s, 1, Len(s) - 1))
       + DigitVal(SubSeq(s, Len(s), Len(s)))

\* Number(v) for the values that occur: numbers, undefined, and strings
\* (blank -> 0, an unsigned decimal integer -> its value, else NaN)
ToNumber(v) ==
  CASE v.kind = "number" -> v
    [] v.kind = "string" ->
         LET t == Trim(v.str) IN
         IF AllDigits(t) THEN JsNum(2 * DecimalValue(t)) ELSE JsNaN
    [] OTHER -> JsNaN

\* Number.isFinite(v)
IsFinite(v) == v.kind = "number"

\* Math.round of a number kept as twice its value: halves go up
MathRound(twice) == (twice + 1) \div 2

\* Math.round(Math.max(0, Math.min(100, x))) with x kept as twice its value
ClampRound(twice) == MathRound(Max(0, Min(200, twice)))

\* the label of the strict (generateObject) OpenRouter path
LabelStrict(score) ==
  IF score < 45 THEN "Human-Captured"
  ELSE IF score <= 55 THEN "Uncertain"
  ELSE "AI-Generated"

\* LabelText with the lower threshold taken inclusively
LabelText_Inclusive(score) ==
  IF score <= 45 THEN "Human-Captured"
  ELSE IF score <= 55 THEN "Uncertain"
  ELSE "AI-Generated"

\* the label of the text-parse OpenRouter path
LabelText(score) ==
  IF score < 45 THEN "Human-Captured"
  ELSE IF score <= 55 THEN "Uncertain"
  ELSE "AI-Generated"

\* the label of the grok-4 path
LabelXai(score) ==
  IF score < 45 THEN "Human-Captured"
  ELSE IF score <= 55 THEN "Uncertain"
  ELSE "AI-Generated"

\* the label of the fallback path
LabelFallback(score) ==
  IF score < 45 THEN "Human-Captured"
  ELSE IF score <= 55 THEN "Uncertain"
  ELSE "AI-Generated"

\* -------------------------------------------------------------------- files
\* The bytes of a file: its length, its first bytes one by one, and the byte
\* every later position holds.  A file no longer than its head has fill 0,
\* so that equal byte sequences are equal records.
FillVals == {255}

\* the small files, byte by byte
SmallHeads == {<<>>, <<1>>, <<255>>}

SmallBytes == {[len |-> Len(h), head |-> h, fill |-> 0] : h \in SmallHeads}

\* sizes around the client's and the server's limits
BigSizes == {MAX_SIZE_BYTES, MAX_SIZE_BYTES + 1, maxBytes, maxBytes + 1}

\* the big files hold one byte value throughout
BigBytes == {[len |-> n, head |-> <<>>, fill |-> v] : n \in BigSizes, v \in FillVals}

\* the longest file read byte by byte, and the shortest read every other byte
EdgeSizes == {2047, 2048}

EdgeBytes == {[len |-> n, head |-> <<>>, fill |-> v] : n \in EdgeSizes, v \in FillVals}

Contents == SmallBytes \cup EdgeBytes \cup BigBytes

\* view[i], i from 0
ByteAt(b, i) == IF i < Len(b.head) THEN b.head[i + 1] ELSE b.fill

FileNames == {"a.png", "b.png"}
FileTypes == {"image/png", "image/gif", "text/plain"}

Files == [name : FileNames, type : FileTypes, bytes : Contents]

FileSize(f) == f.bytes.len

NoFile == [name |-> "", type |-> "", bytes |-> [len |-> 0, head |-> <<>>, fill |-> 0]]

\* ------------------------------------------------------ fallback heuristic
\* hash = (hash * 31 + byte) >>> 0 on a hash kept as 16-bit limbs hi, lo
HashStep(h, byte) ==
  LET l == h.lo * 31 + byte
      u == h.hi * 31 + (l \div 65536)
  IN  [hi |-> u % 65536, lo |-> l % 65536]

\* the loop body for the samples k = from .. to-1 (i = k * step), in order;
\* the range is halved so that the evaluation stays shallow
RECURSIVE HashRange(_, _, _, _, _)
HashRange(h, b, step, from, to) ==
  IF h.lo < 0 \/ to <= from THEN h
  ELSE IF to = from + 1 THEN HashStep(h, ByteAt(b, from * step))
  ELSE LET mid == (from + to) \div 2
       IN  HashRange(HashRange(h, b, step, from, mid), b, step, mid, to)

\* const step = Math.max(1, Math.floor(view.length / 1024))
StepOf(b) == Max(1, b.len \div 1024)

\* number of i = 0, step, 2*step, ... below view.length
SampleCount(b) == (b.len + StepOf(b) - 1) \div StepOf(b)

RollingHash(b) == HashRange([hi |-> 0, lo |-> 0], b, StepOf(b), 0, SampleCount(b))

\* the hashes of the files of the model, computed once
HashTable == [b \in Contents |-> RollingHash(b)]

\* hash % n for a hash kept as limbs
HashMod(h, n) == (h.hi * (65536 % n) + h.lo) % n

reasons ==
  << "Texture regularity suggests model synthesis.",
     "Natural sensor noise patterns detected.",
     "EXIF fields appear atypical for camera devices.",
     "Frequency components hint at generative priors.",
     "Compression artifacts align with human-captured photos.",
     "Watermark-like traces near edges.",
     "Noise signature resembles demosaicing from real sensors.",
     "Classifier confidence near boundary threshold." >>

\* FallbackResult with the score taken modulo 256
FallbackResult_Mod256(f) ==
  LET hash  == HashTable[f.bytes]
      score == HashMod(hash, 256)
  IN  [score |-> score, label |-> LabelFallback(score),
       reason |-> reasons[HashMod(hash, Len(reasons)) + 1], provider |-> "fallback"]

\* FallbackResult with the MIME type folded into the hash
FallbackResult_Typed(f) ==
  LET hash  == HashStep(HashTable[f.bytes], Len(f.type) + (IF f.type = "image/png" THEN 1 ELSE 0))
      score == HashMod(hash, 101)
  IN  [score |-> score, label |-> LabelFallback(score),
       reason |-> reasons[HashMod(hash, Len(reasons)) + 1], provider |-> "fallback"]

\* FallbackResult with the reason picked by the score
FallbackResult_ByScore(f) ==
  LET hash  == HashTable[f.bytes]
      score == HashMod(hash, 101)
  IN  [score |-> score, label |-> LabelFallback(score),
       reason |-> reasons[(score % Len(reasons)) + 1], provider |-> "fallback"]

\* the response body of the fallback path for a file
FallbackResult(f) ==
  LET hash  == HashTable[f.bytes]
      score == HashMod(hash, 101)
  IN  [score |-> score, label |-> LabelFallback(score),
       reason |-> reasons[HashMod(hash, Len(reasons)) + 1], provider |-> "fallback"]

\* ------------------------------------------------------------------ schema
\* a parsed JSON value: an object with the two keys (a missing key holds
\* undefined), or null
JsObject(sv, rv) == [kind |-> "object", score |-> sv, reason |-> rv]
JsNull == [kind |-> "null", score |-> JsUndef, reason |-> JsUndef]

\* z.preprocess of score: a string that is a finite number becomes it
PreprocessScore(v) ==
  IF v.kind = "string" /\ IsFinite(ToNumber(v)) THEN ToNumber(v) ELSE v

\* z.number().min(0).max(100)
ScoreValid(v) == v.kind = "number" /\ v.twice >= 0 /\ v.twice <= 200

\* z.string().min(3).max(200)
ReasonValid(v) == v.kind = "string" /\ Len(v.str) >= 3 /\ Len(v.str) <= 200

\* schema.safeParse(x)
SafeParse(x) ==
  IF /\ x.kind = "object"
     /\ ScoreValid(PreprocessScore(x.score))
     /\ ReasonValid(x.reason)
  THEN [success |-> TRUE,
        data |-> JsObject(PreprocessScore(x.score), x.reason)]
  ELSE [success |-> FALSE, data |-> JsNull]

\* x || "No reason provided", then String(...)
ReasonOrDefault(v) ==
  IF v.kind = "string" /\ v.str # "" THEN v.str ELSE "No reason provided"

\* the response body of the strict path from result.object
NormalizeStrict(obj, modelName) ==
  LET n        == ToNumber(obj.score)
      rawScore == IF IsFinite(n) THEN n.twice ELSE 100
      score    == ClampRound(rawScore)
  IN  [score |-> score, label |-> LabelStrict(score),
       reason |-> Slice0(ReasonOrDefault(obj.reason), 200),
       provider |-> "openrouter:" \o modelName]

\* the response body of the text-parse path from safe.data
NormalizeText(data, modelName) ==
  LET score == ClampRound(ToNumber(data.score).twice)
  IN  [score |-> score, label |-> LabelText(score),
       reason |-> Slice0(data.reason.str, 200),
       provider |-> "openrouter:" \o modelName]

\* the response body of the grok-4 path from result.object
NormalizeXai(obj) ==
  LET n        == ToNumber(obj.score)
      rawScore == IF IsFinite(n) THEN n.twice ELSE 100
      score    == ClampRound(rawScore)
  IN  [score |-> score, label |-> LabelXai(score),
       reason |-> Slice0(ReasonOrDefault(obj.reason), 200),
       provider |-> "grok-4"]

\* ------------------------------------------------------------- environment
ModelChars == {"a", ",", " "}

RECURSIVE StringsOfLen(_, _)
StringsOfLen(C, n) ==
  IF n = 0 THEN {""}
  ELSE {s \o c : s \in StringsOfLen(C, n - 1), c \in C}

ModelStrings == UNION {StringsOfLen(ModelChars, n) : n \in 0..MaxModelLen}

\* process.env as the handler reads it; an unset variable reads like ""
Envs ==
  [OPENROUTER_API_KEY : {"", "sk-or"},
   OPENROUTER_MODEL   : ModelStrings,
   XAI_API_KEY        : {"", "xai-key"}]

\* !!v of a string or unset variable
Truthy(s) == s # ""

\* s.split(",")
RECURSIVE SplitComma(_)
SplitComma(s) ==
  LET commas == {i \in 1..Len(s) : SubSeq(s, i, i) = ","} IN
  IF commas = {} THEN <<s>>
  ELSE LET i == CHOOSE k \in commas : \A j \in commas : k <= j
       IN  <<SubSeq(s, 1, i - 1)>> \o SplitComma(SubSeq(s, i + 1, Len(s)))

\* .map((s) => s.trim())
MapTrim(q) == [i \in 1..Len(q) |-> Trim(q[i])]

IsNonEmpty(s) == s # ""

\* .filter(Boolean)
FilterBoolean(q) == SelectSeq(q, IsNonEmpty)

DefaultCandidates ==
  << "openai/gpt-4o", "google/gemini-1.5-pro", "anthropic/claude-3.5-sonnet" >>

\* the split, trimmed and filtered list of every OPENROUTER_MODEL value,
\* computed once
CandidateTable ==
  [m \in ModelStrings |-> FilterBoolean(MapTrim(SplitComma(m)))]

\* const candidates
CandidatesOf(env) ==
  IF Truthy(env.OPENROUTER_MODEL)
  THEN CandidateTable[env.OPENROUTER_MODEL]
  ELSE DefaultCandidates

\* ------------------------------------------------------- model text, JSON
\* The text a model returns is a sequence of tokens: prose, the fence
\* markers ```json and ```, braces, commas, and the members "score": v and
\* "reason": v, each with its value.
Tok(t) == [t |-> t, v |-> JsUndef]
TokScore(v) == [t |-> "score", v |-> v]
TokReason(v) == [t |-> "reason", v |-> v]

\* the least index from on where the text has a token of ts, 0 if none
FirstIndex(text, ts, from) ==
  LET S == {i \in from..Len(text) : text[i].t \in ts} IN
  IF S = {} THEN 0 ELSE CHOOSE i \in S : \A j \in S : i <= j

\* the greatest index where the text has a token of ts, 0 if none
LastIndex(text, ts) ==
  LET S == {i \in 1..Len(text) : text[i].t \in ts} IN
  IF S = {} THEN 0 ELSE CHOOSE i \in S : \A j \in S : i >= j

\* the value of the last member named key, undefined if there is none
MemberValue(toks, key) ==
  LET i == LastIndex(toks, {key}) IN IF i = 0 THEN JsUndef ELSE toks[i].v

\* JSON.parse of a token sequence: { member , member ... } is an object,
\* anything else throws
JsonParse(toks) ==
  LET n     == Len(toks)
      inner == SubSeq(toks, 2, n - 1)
      wellFormed ==
        /\ n >= 2
        /\ toks[1].t = "lbrace"
        /\ toks[n].t = "rbrace"
        /\ \/ inner = <<>>
           \/ /\ Len(inner) % 2 = 1
              /\ \A i \in 1..Len(inner) :
                   IF i % 2 = 1 THEN inner[i].t \in {"score", "reason"}
                   ELSE inner[i].t = "comma"
  IN  IF wellFormed
      THEN [ok |-> TRUE,
            value |-> JsObject(MemberValue(inner, "score"),
                               MemberValue(inner, "reason"))]
      ELSE [ok |-> FALSE, value |-> JsNull]

\* candidate.replace(/,(\s*[}\]])/g, "$1")
RECURSIVE RemoveTrailingCommas(_)
RemoveTrailingCommas(toks) ==
  IF Len(toks) < 2 THEN toks
  ELSE IF toks[1].t = "comma" /\ toks[2].t = "rbrace"
       THEN RemoveTrailingCommas(Tail(toks))
       ELSE <<toks[1]>> \o RemoveTrailingCommas(Tail(toks))

Fences == {"fence", "fence_json"}

\* extractJsonObject(text): the parsed value, or null
extractJsonObject(text) ==
  LET \* /```json([\s\S]*?)```/i
      jOpen   == FirstIndex(text, {"fence_json"}, 1)
      jClose  == IF jOpen = 0 THEN 0 ELSE FirstIndex(text, Fences, jOpen + 1)
      jBody   == SubSeq(text, jOpen + 1, jClose - 1)
      \* /```([\s\S]*?)```/i : after ```json the capture starts with "json"
      aOpen   == FirstIndex(text, Fences, 1)
      aClose  == IF aOpen = 0 THEN 0 ELSE FirstIndex(text, Fences, aOpen + 1)
      aLead   == IF aOpen # 0 /\ text[aOpen].t = "fence_json"
                 THEN <<Tok("prose")>> ELSE <<>>
      aBody   == aLead \o SubSeq(text, aOpen + 1, aClose - 1)
      firstBrace == FirstIndex(text, {"lbrace"}, 1)
      lastBrace  == LastIndex(text, {"rbrace"})
      braces  == RemoveTrailingCommas(SubSeq(text, firstBrace, lastBrace))
  IN  IF text = <<>> THEN JsNull
      ELSE IF jClose # 0 /\ jBody # <<>> THEN JsonParse(jBody).value
      ELSE IF aClose # 0 /\ aBody # <<>> /\ JsonParse(aBody).ok
           THEN JsonParse(aBody).value
      ELSE IF firstBrace # 0 /\ lastBrace > firstBrace
           THEN JsonParse(braces).value
      ELSE JsNull

\* ------------------------------------------------------- provider outputs
RECURSIVE Repeat(_, _)
Repeat(s, n) ==
  IF n = 0 THEN ""
  ELSE IF n % 2 = 0 THEN LET half == Repeat(s, n \div 2) IN half \o half
  ELSE Repeat(s, n - 1) \o s

\* reasons of 2, 3, 200 and 201 characters
ReasonTexts == {"ok", "AI.", Repeat("x", 200), Repeat("x", 201)}

\* -1, 0, 44, 44.5, 55, 55.5, 100 and 101 as numbers, and three strings
ScoreValues ==
  {JsNum(t) : t \in {-2, 0, 88, 89, 110, 111, 200, 202}}
    \cup {JsStr("56"), JsStr("abc"), JsStr("")}

\* what a model may produce for the schema: any score and reason, or a
\* member left out
RawObjects ==
  {JsObject(sv, rv) : sv \in ScoreValues \cup {JsUndef},
                      rv \in {JsStr(r) : r \in ReasonTexts} \cup {JsUndef}}

\* the shapes of answer text, around the members of one object
TextsOf(o) ==
  LET ms == (IF o.score.kind = "undefined" THEN <<>> ELSE <<TokScore(o.score)>>)
            \o (IF o.score.kind # "undefined" /\ o.reason.kind # "undefined"
                THEN <<Tok("comma")>> ELSE <<>>)
            \o (IF o.reason.kind = "undefined" THEN <<>>
                ELSE <<TokReason(o.reason)>>)
      obj == <<Tok("lbrace")>> \o ms \o <<Tok("rbrace")>>
  IN  { obj,
        <<Tok("prose")>> \o obj \o <<Tok("prose")>>,
        <<Tok("fence_json")>> \o obj \o <<Tok("fence")>>,
        <<Tok("fence")>> \o obj \o <<Tok("fence")>>,
        <<Tok("lbrace")>> \o ms \o <<Tok("comma"), Tok("rbrace")>>,
        <<Tok("fence_json"), Tok("prose"), Tok("fence")>> \o obj,
        <<Tok("fence"), Tok("prose"), Tok("fence")>> \o obj,
        <<Tok("fence_json"), Tok("fence")>> \o obj,
        ms }

\* the objects whose texts the model tries
TextObjects ==
  {JsObject(sv, rv) :
     sv \in {JsNum(89), JsNum(202), JsStr("56"), JsStr(""), JsUndef},
     rv \in {JsStr("ok"), JsStr("AI."), JsStr(Repeat("x", 201)), JsUndef}}

Texts == {<<>>, <<Tok("prose")>>} \cup UNION {TextsOf(o) : o \in TextObjects}

\* ---------------------------------------------------------------- requests
\* a form field: absent, a string value, or a File
FieldAbsent == [kind |-> "absent", file |-> NoFile]
FieldString == [kind |-> "string", file |-> NoFile]
FieldFile(f) == [kind |-> "file", file |-> f]

\* a body that req.formData() rejects
BadBody == [multipart |-> FALSE, image |-> FieldAbsent, file |-> FieldAbsent]

\* the files also sent under the field name "file"
ProbeFiles ==
  {f \in Files : f.name = "a.png"
                 /\ f.bytes.len \in {0, maxBytes + 1}}

\* the request bodies an HTTP client sends to the route
Forms ==
  {BadBody}
    \cup {[multipart |-> TRUE, image |-> FieldFile(f), file |-> FieldAbsent]
            : f \in Files}
    \cup [multipart : {TRUE},
          image : {FieldAbsent, FieldString} \cup {FieldFile(f) : f \in ProbeFiles},
          file  : {FieldAbsent, FieldString} \cup {FieldFile(f) : f \in ProbeFiles}]

NoEnv == [OPENROUTER_API_KEY |-> "", OPENROUTER_MODEL |-> "", XAI_API_KEY |-> ""]

NoPending == [kind |-> "none", origin |-> "", form |-> BadBody, env |-> NoEnv]

Request(origin, form, env) ==
  [kind |-> "request", origin |-> origin, form |-> form, env |-> env]

\* --------------------------------------------------------------- responses
NoJson == [score |-> 0, label |-> "", reason |-> "", provider |-> ""]
NoResp == [kind |-> "none", status |-> 0, text |-> "", json |-> NoJson]

\* new NextResponse(text, { status })
TextResponse(text, status) ==
  [kind |-> "text", status |-> status, text |-> text, json |-> NoJson]

\* NextResponse.json(body)
JsonResponse(body) ==
  [kind |-> "json", status |-> 200, text |-> "", json |-> body]

\* ------------------------------------------------------ request validation
\* form.get("image") ?? form.get("file")
PickField(form) == IF form.image.kind # "absent" THEN form.image ELSE form.file

\* Validate without the size guard
Validate_NoSizeGuard(form) ==
  LET picked == PickField(form) IN
  IF ~form.multipart
  THEN [ok |-> FALSE, file |-> NoFile,
        resp |-> TextResponse("Expected multipart/form-data", 400)]
  ELSE IF picked.kind # "file"
  THEN [ok |-> FALSE, file |-> NoFile,
        resp |-> TextResponse("Missing image", 400)]
  ELSE IF ~StartsWith(picked.file.type, "image/")
  THEN [ok |-> FALSE, file |-> NoFile,
        resp |-> TextResponse("Invalid file type", 400)]
  ELSE [ok |-> TRUE, file |-> picked.file, resp |-> NoResp]

\* the checks of the handler before the file is read: the rejection, or the
\* accepted file
Validate(form) ==
  LET picked == PickField(form) IN
  IF ~form.multipart
  THEN [ok |-> FALSE, file |-> NoFile,
        resp |-> TextResponse("Expected multipart/form-data", 400)]
  ELSE IF picked.kind # "file"
  THEN [ok |-> FALSE, file |-> NoFile,
        resp |-> TextResponse("Missing image", 400)]
  ELSE IF ~StartsWith(picked.file.type, "image/")
  THEN [ok |-> FALSE, file |-> NoFile,
        resp |-> TextResponse("Invalid file type", 400)]
  ELSE IF FileSize(picked.file) > maxBytes
  THEN [ok |-> FALSE, file |-> NoFile,
        resp |-> TextResponse("Image too large (max 6MB)", 413)]
  ELSE [ok |-> TRUE, file |-> picked.file, resp |-> NoResp]

\* ------------------------------------------------------------------- state
VARIABLES
  pending,     \* the request on its way to the route handler
  handler,     \* the handler's position and locals for the request it serves
  calls,       \* the provider calls the handler has made for that request
  resp,        \* the response the handler has produced
  memo,        \* an earlier fallback response, with the bytes it was for
  file,        \* Detector: useState file
  previewUrl,  \* Detector: useState previewUrl
  loading,     \* Detector: useState loading
  error,       \* Detector: useState error
  result,      \* Detector: useState result
  flight,      \* Detector: the analyze call that awaits its fetch
  fetched      \* Detector: what the fetch of the last analyze call settled with

serverVars == <<pending, handler, calls, resp>>
clientVars == <<file, previewUrl, loading, error, result, flight, fetched>>
vars == <<pending, handler, calls, resp, memo,
          file, previewUrl, loading, error, result, flight, fetched>>

IdleHandler ==
  [pc |-> "idle", origin |-> "", file |-> NoFile, hasOpenRouter |-> FALSE,
   candidates |-> <<>>, hasXai |-> FALSE, idx |-> 0]

NoMemo == [kind |-> "none", bytes |-> NoFile.bytes, json |-> NoJson]

\* AfterOpenRouter without the grok-4 block
AfterOpenRouter_NoXai(hasXai) == "fallback"

\* where the handler goes once the OpenRouter block is over
AfterOpenRouter(hasXai) == IF hasXai THEN "xai" ELSE "fallback"

\* a provider call, as recorded in calls
Call(provider, model, mode, ok) ==
  [provider |-> provider, model |-> model, mode |-> mode, ok |-> ok]

\* --------------------------------------------------------- client values
NullFile == [isNull |-> TRUE, f |-> NoFile]
SomeFile(f) == [isNull |-> FALSE, f |-> f]

NullText == [isNull |-> TRUE, text |-> ""]
SomeText(t) == [isNull |-> FALSE, text |-> t]

NoDisplay == [verdict |-> "", score |-> 0, reason |-> ""]
\* a result, with the file whose request produced it
NullResult == [isNull |-> TRUE, display |-> NoDisplay, of |-> NoFile]
SomeResult(d, f) == [isNull |-> FALSE, display |-> d, of |-> f]

NoFlight == [active |-> FALSE, file |-> NoFile]

\* fetch has not settled, resolved with a response, or rejected with an error
NotFetched == [kind |-> "none", status |-> 0, text |-> ""]
Resolved(status, body) == [kind |-> "response", status |-> status, text |-> body]
Rejected(message) == [kind |-> "rejected", status |-> 0, text |-> message]

\* -------------------------------------------------------------------- Init
Init ==
  /\ pending = NoPending
  /\ handler = IdleHandler
  /\ calls = <<>>
  /\ resp = NoResp
  /\ memo = NoMemo
  /\ file = NullFile
  /\ previewUrl = NullFile
  /\ loading = FALSE
  /\ error = NullText
  /\ result = NullResult
  /\ flight = NoFlight
  /\ fetched = NotFetched

\* ------------------------------------------------------- the route handler
\* an HTTP client other than the widget posts a body; the handler will read
\* the environment env
DirectPost ==
  /\ pending.kind = "none"
  /\ handler.pc = "idle"
  /\ \E form \in Forms, env \in Envs :
       pending' = Request("direct", form, env)
  /\ UNCHANGED <<handler, calls, resp, memo>>
  /\ UNCHANGED clientVars

\* POST, from its entry to the first provider call: parse and validate the
\* upload, read the bytes, read the configuration
Accept ==
  /\ pending.kind = "request"
  /\ handler.pc = "idle"
  /\ LET v    == Validate(pending.form)
         env  == pending.env
         hasOpenRouter == Truthy(env.OPENROUTER_API_KEY)
         candidates == IF hasOpenRouter THEN CandidatesOf(env) ELSE <<>>
         hasXai == Truthy(env.XAI_API_KEY)
     IN  IF ~v.ok
         THEN /\ handler' = [IdleHandler EXCEPT !.pc = "done",
                                                !.origin = pending.origin]
              /\ resp' = v.resp
         ELSE /\ handler' =
                   [pc |-> IF candidates # <<>> THEN "strict"
                           ELSE AfterOpenRouter(hasXai),
                    origin |-> pending.origin,
                    file |-> v.file,
                    hasOpenRouter |-> hasOpenRouter,
                    candidates |-> candidates,
                    hasXai |-> hasXai,
                    idx |-> IF candidates # <<>> THEN 1 ELSE 0]
              /\ resp' = NoResp
  /\ pending' = NoPending
  /\ calls' = <<>>
  /\ UNCHANGED memo
  /\ UNCHANGED clientVars

\* generateObject with the schema: the object the model produced if it
\* matches the schema; no object (the call failed) or a mismatch throws
GenerateObject(raw) ==
  LET safe == SafeParse(raw) IN
  [threw |-> ~safe.success, object |-> safe.data]

\* what generateObject can end with, over the objects of the model and a
\* call that produces none
ObjectOutcomes == {GenerateObject(raw) : raw \in RawObjects \cup {JsNull}}

\* the first attempt for candidates[idx]
StrictAttempt ==
  /\ handler.pc = "strict"
  /\ \E r \in ObjectOutcomes :
       LET modelName == handler.candidates[handler.idx]
       IN  /\ calls' = Append(calls, Call("openrouter", modelName, "object", ~r.threw))
           /\ IF ~r.threw
              THEN /\ resp' = JsonResponse(NormalizeStrict(r.object, modelName))
                   /\ handler' = [handler EXCEPT !.pc = "done"]
              ELSE /\ resp' = resp
                   /\ handler' = [handler EXCEPT !.pc = "text"]
  /\ UNCHANGED <<pending, memo>>
  /\ UNCHANGED clientVars

\* the outcomes of generateText: it throws, or returns a text
TextOutcomes ==
  {[threw |-> TRUE, text |-> <<>>]}
    \cup {[threw |-> FALSE, text |-> t] : t \in Texts}

\* the text attempt on an outcome of generateText: extract, validate
ParseText(out) ==
  LET safe == SafeParse(extractJsonObject(out.text))
      ok   == ~out.threw /\ safe.success
  IN  [ok |-> ok, data |-> IF ok THEN safe.data ELSE JsNull]

\* ParseText of every outcome of the model, computed once
ParseTable == [out \in TextOutcomes |-> ParseText(out)]

\* what the text attempt can end with, over the outcomes of the model
TextParses == {ParseTable[out] : out \in TextOutcomes}

\* NextCandidate trying the same candidate again
NextCandidate_Repeat(h) ==
  IF h.idx < Len(h.candidates)
  THEN [h EXCEPT !.pc = "strict"]
  ELSE [h EXCEPT !.pc = AfterOpenRouter(h.hasXai)]

\* NextCandidate leaving the loop after the first candidate
NextCandidate_Break(h) == [h EXCEPT !.pc = AfterOpenRouter(h.hasXai)]

\* the loop moves to the next candidate, or leaves the OpenRouter block
NextCandidate(h) ==
  IF h.idx < Len(h.candidates)
  THEN [h EXCEPT !.pc = "strict", !.idx = h.idx + 1]
  ELSE [h EXCEPT !.pc = AfterOpenRouter(h.hasXai)]

\* the second attempt for candidates[idx], in the catch of the first, when
\* extraction and validation end with parsed
TextAttemptWith(parsed) ==
  /\ handler.pc = "text"
  /\ LET modelName == handler.candidates[handler.idx]
         ok == parsed.ok
     IN  /\ calls' = Append(calls, Call("openrouter", modelName, "text", ok))
         /\ IF ok
            THEN /\ resp' = JsonResponse(NormalizeText(parsed.data, modelName))
                 /\ handler' = [handler EXCEPT !.pc = "done"]
            ELSE /\ resp' = resp
                 /\ handler' = NextCandidate(handler)
  /\ UNCHANGED <<pending, memo>>
  /\ UNCHANGED clientVars

\* the second attempt for candidates[idx], in the catch of the first
TextAttempt == \E parsed \in TextParses : TextAttemptWith(parsed)

\* the grok-4 block
XaiAttempt ==
  /\ handler.pc = "xai"
  /\ \E r \in ObjectOutcomes :
       /\ calls' = Append(calls, Call("xai", "grok-4", "object", ~r.threw))
       /\ IF ~r.threw
          THEN /\ resp' = JsonResponse(NormalizeXai(r.object))
               /\ handler' = [handler EXCEPT !.pc = "done"]
          ELSE /\ resp' = resp
               /\ handler' = [handler EXCEPT !.pc = "fallback"]
  /\ UNCHANGED <<pending, memo>>
  /\ UNCHANGED clientVars

\* the fallback heuristic
Fallback ==
  /\ handler.pc = "fallback"
  /\ resp' = JsonResponse(FallbackResult(handler.file))
  /\ handler' = [handler EXCEPT !.pc = "done"]
  /\ UNCHANGED <<pending, calls, memo>>
  /\ UNCHANGED clientVars

\* the response leaves for an HTTP client other than the widget
Finish ==
  /\ handler.pc = "done"
  /\ handler.origin = "direct"
  /\ handler' = IdleHandler
  /\ calls' = <<>>
  /\ resp' = NoResp
  /\ UNCHANGED <<pending, memo>>
  /\ UNCHANGED clientVars

Next ==
  \/ DirectPost
  \/ Accept
  \/ StrictAttempt
  \/ TextAttempt
  \/ XaiAttempt
  \/ Fallback
  \/ Finish

Spec == Init /\ [][Next]_vars

\* a step of the handler
HandlerStep == Accept \/ StrictAttempt \/ TextAttempt \/ XaiAttempt \/ Fallback

\* every await of the handler settles: a step that can be taken is taken
SpecFair == Spec /\ WF_vars(HandlerStep)

\* the reference request for a file's bytes: posted as a.png of type
\* image/png to a deployment with no provider key
IsReference(h) ==
  /\ h.file.name = "a.png"
  /\ h.file.type = "image/png"
  /\ ~h.hasOpenRouter
  /\ ~h.hasXai

\* Finish, keeping the fallback response to a reference request in memo
FinishRemember ==
  /\ handler.pc = "done"
  /\ handler.origin = "direct"
  /\ resp.kind = "json"
  /\ resp.json.provider = "fallback"
  /\ IsReference(handler)
  /\ memo' = [kind |-> "fallback", bytes |-> handler.file.bytes, json |-> resp.json]
  /\ handler' = IdleHandler
  /\ calls' = <<>>
  /\ resp' = NoResp
  /\ UNCHANGED pending
  /\ UNCHANGED clientVars

NextRemember == Next \/ FinishRemember

\* the route handler, with one earlier fallback response kept for comparison
SpecRemember == Init /\ [][NextRemember]_vars

\* ------------------------------------------------------------ the widget
\* the files the user picks or drops: two that pass, and ones of a wrong
\* type or above the client's limit
UserFiles ==
  {f \in Files : f.name = "a.png"
                 /\ f.bytes.len \in {0, MAX_SIZE_BYTES, MAX_SIZE_BYTES + 1}}

\* the FileList values handed to onFiles: empty, or one file
FileLists == {<<>>} \cup {<<f>> : f \in UserFiles}

\* onFilesError without the size check
onFilesError_NoSize(f) ==
  IF ~StartsWith(f.type, "image/")
  THEN SomeText("Please upload a valid image file.")
  ELSE NullText

\* the checks of onFiles on files[0]: the error it sets, null if it accepts
onFilesError(f) ==
  IF ~StartsWith(f.type, "image/")
  THEN SomeText("Please upload a valid image file.")
  ELSE IF FileSize(f) > MAX_SIZE_BYTES
  THEN SomeText("Image is too large. Please select a file under 5MB.")
  ELSE NullText

\* onFiles(files)
onFiles ==
  /\ \E files \in FileLists :
       IF Len(files) = 0
       THEN UNCHANGED <<file, previewUrl, error, result>>
       ELSE LET f == files[1] IN
            /\ result' = NullResult
            /\ error' = onFilesError(f)
            /\ IF onFilesError(f).isNull
               THEN /\ file' = SomeFile(f)
                    /\ previewUrl' = SomeFile(f)
               ELSE UNCHANGED <<file, previewUrl>>
  /\ UNCHANGED <<loading, flight, fetched, memo>>
  /\ UNCHANGED serverVars

\* the body fetch sends: fd.append("image", file)
UploadForm(f) ==
  [multipart |-> TRUE, image |-> FieldFile(f), file |-> FieldAbsent]

\* analyze(), up to the await of fetch; the Analyze button is disabled
\* while loading
analyze ==
  /\ ~loading
  /\ ~flight.active
  /\ IF file.isNull
     THEN /\ error' = SomeText("Please select an image first.")
          /\ UNCHANGED <<loading, result, flight, fetched, pending>>
     ELSE /\ loading' = TRUE
          /\ error' = NullText
          /\ result' = NullResult
          /\ flight' = [active |-> TRUE, file |-> file.f]
          /\ fetched' = NotFetched
          /\ \E env \in Envs :
               pending' = Request("widget", UploadForm(file.f), env)
  /\ UNCHANGED <<file, previewUrl, handler, calls, resp, memo>>

\* toDisplay with the first Uncertain score counted as human
toDisplay_Inclusive(body) ==
  LET s == Max(0, Min(100, MathRound(2 * body.score)))
      verdict ==
        IF s < 35 THEN "Human-Captured"
        ELSE IF s <= 45 THEN "Most Likely Human-Captured"
        ELSE IF s <= 55 THEN "Uncertain - borderline case"
        ELSE IF s <= 65 THEN "Most Likely AI-Generated"
        ELSE "AI-Generated"
  IN  [verdict |-> verdict, score |-> s, reason |-> body.reason]

\* toDisplay(resp); the dash of the borderline verdict is written in ASCII
toDisplay(body) ==
  LET s == Max(0, Min(100, MathRound(2 * body.score)))
      verdict ==
        IF s < 35 THEN "Human-Captured"
        ELSE IF s < 45 THEN "Most Likely Human-Captured"
        ELSE IF s <= 55 THEN "Uncertain - borderline case"
        ELSE IF s <= 65 THEN "Most Likely AI-Generated"
        ELSE "AI-Generated"
  IN  [verdict |-> verdict, score |-> s, reason |-> body.reason]

\* the colorClass the widget passes to RadialMeter
colorClass ==
  IF ~result.isNull
  THEN IF result.display.score <= 45 THEN "text-zinc-400"
       ELSE IF result.display.score <= 55 THEN "text-amber-300"
       ELSE "text-emerald-400"
  ELSE "text-emerald-400"

\* the value the widget passes to RadialMeter: result?.score ?? 0
meterValue == IF result.isNull THEN 0 ELSE result.display.score

\* RadialMeter: const clamped = Math.max(0, Math.min(100, value))
clamped(value) == Max(0, Min(100, value))

\* res.ok
ResOk(status) == status >= 200 /\ status <= 299

\* x || d with the default dropped
OrDefault_None(x, d) == x

\* x || d for strings
OrDefault(x, d) == IF x # "" THEN x ELSE d

\* analyze(), from the response of the route handler to its end
Deliver ==
  /\ flight.active
  /\ handler.pc = "done"
  /\ handler.origin = "widget"
  /\ IF ~ResOk(resp.status)
     THEN /\ error' = SomeText(OrDefault(OrDefault(resp.text, "Request failed"),
                                         "Something went wrong."))
          /\ UNCHANGED result
     ELSE /\ result' = SomeResult(toDisplay(resp.json), flight.file)
          /\ UNCHANGED error
  /\ fetched' = Resolved(resp.status, resp.text)
  /\ loading' = FALSE
  /\ flight' = NoFlight
  /\ handler' = IdleHandler
  /\ calls' = <<>>
  /\ resp' = NoResp
  /\ UNCHANGED <<file, previewUrl, pending, memo>>

\* the bodies of the non-OK answers of a server in front of the route
GatewayReplies == {TextResponse("", 502), TextResponse("Request Entity Too Large", 413)}

\* analyze(), when a server in front of the route answers the fetch with a
\* non-OK status; the handler's work for the request is of no further use
GatewayError ==
  /\ flight.active
  /\ \E reply \in GatewayReplies :
       /\ error' = SomeText(OrDefault(OrDefault(reply.text, "Request failed"),
                                      "Something went wrong."))
       /\ fetched' = Resolved(reply.status, reply.text)
  /\ loading' = FALSE
  /\ flight' = NoFlight
  /\ pending' = NoPending
  /\ handler' = IdleHandler
  /\ calls' = <<>>
  /\ resp' = NoResp
  /\ UNCHANGED <<file, previewUrl, result, memo>>

\* the messages of the errors fetch rejects with
NetworkMessages == {"Failed to fetch", ""}

\* analyze(), when fetch rejects
NetworkError ==
  /\ flight.active
  /\ \E message \in NetworkMessages :
       /\ error' = SomeText(OrDefault(message, "Something went wrong."))
       /\ fetched' = Rejected(message)
  /\ loading' = FALSE
  /\ flight' = NoFlight
  /\ pending' = NoPending
  /\ handler' = IdleHandler
  /\ calls' = <<>>
  /\ resp' = NoResp
  /\ UNCHANGED <<file, previewUrl, result, memo>>

\* the widget and the route handler serving it
NextWidget ==
  \/ onFiles
  \/ analyze
  \/ Accept
  \/ StrictAttempt
  \/ TextAttempt
  \/ XaiAttempt
  \/ Fallback
  \/ Deliver
  \/ GatewayError
  \/ NetworkError

SpecWidget == Init /\ [][NextWidget]_vars

\* ================================================================== claims
\* the provider calls of a request whose every call fails, in priority order
RECURSIVE CandidateChain(_)
CandidateChain(cands) ==
  IF cands = <<>> THEN <<>>
  ELSE << [provider |-> "openrouter", model |-> Head(cands), mode |-> "object"],
          [provider |-> "openrouter", model |-> Head(cands), mode |-> "text"] >>
       \o CandidateChain(Tail(cands))

FullChain(h) ==
  CandidateChain(h.candidates)
    \o (IF h.hasXai
        THEN << [provider |-> "xai", model |-> "grok-4", mode |-> "object"] >>
        ELSE <<>>)

CallTarget(c) == [provider |-> c.provider, model |-> c.model, mode |-> c.mode]

\* the calls made so far are the first calls of the chain
CallsFollowChain ==
  /\ Len(calls) <= Len(FullChain(handler))
  /\ \A k \in 1..Len(calls) : CallTarget(calls[k]) = FullChain(handler)[k]

\* only the last call made may have succeeded
OnlyLastSucceeded == \A k \in 1..(Len(calls) - 1) : ~calls[k].ok

Answered == handler.pc = "done" /\ resp.kind = "json"

RECURSIVE WithoutChars(_, _)
WithoutChars(s, C) ==
  IF s = "" THEN ""
  ELSE (IF Head(s) \in C THEN "" ELSE SubSeq(s, 1, 1))
       \o WithoutChars(SubSeq(s, 2, Len(s)), C)

RECURSIVE Concat(_)
Concat(q) == IF q = <<>> THEN "" ELSE Head(q) \o Concat(Tail(q))

\* q lists the comma-separated pieces of s, trimmed, the blank ones dropped
IsSplitOf(q, s) ==
  /\ \A i \in 1..Len(q) :
       /\ q[i] # ""
       /\ WithoutChars(q[i], {","}) = q[i]
       /\ SubSeq(q[i], 1, 1) # " "
       /\ SubSeq(q[i], Len(q[i]), Len(q[i])) # " "
  /\ WithoutChars(Concat(q), {" "}) = WithoutChars(s, {",", " "})
  /\ Len(q) <= Len(s) - Len(WithoutChars(s, {","})) + 1

C1_StateOrder ==
  /\ CallsFollowChain
  /\ OnlyLastSucceeded
  /\ handler.pc \in {"strict", "text", "xai", "fallback"} =>
       \A k \in 1..Len(calls) : ~calls[k].ok
  /\ Answered =>
       /\ \A i \in 1..Len(handler.candidates) :
            resp.json.provider = "openrouter:" \o handler.candidates[i] =>
              \E j \in 1..Len(handler.candidates) :
                 /\ handler.candidates[j] = handler.candidates[i]
                 /\ Len(calls) \in {2 * j - 1, 2 * j}
                 /\ calls[Len(calls)].ok
       /\ resp.json.provider = "grok-4" =>
            /\ Len(calls) = 2 * Len(handler.candidates) + 1
            /\ calls[Len(calls)].ok
            /\ calls[Len(calls)].provider = "xai"
       /\ resp.json.provider = "fallback" \/ resp.json.provider = "grok-4"
            \/ \E i \in 1..Len(handler.candidates) :
                  resp.json.provider = "openrouter:" \o handler.candidates[i]

C1_Configured ==
  (pending.kind = "request" /\ handler'.pc \notin {"idle", "done"}) =>
    /\ handler'.hasOpenRouter = (pending.env.OPENROUTER_API_KEY # "")
    /\ handler'.hasXai = (pending.env.XAI_API_KEY # "")
    /\ handler'.hasOpenRouter =>
         IF pending.env.OPENROUTER_MODEL # ""
         THEN IsSplitOf(handler'.candidates, pending.env.OPENROUTER_MODEL)
         ELSE handler'.candidates =
                << "openai/gpt-4o", "google/gemini-1.5-pro",
                   "anthropic/claude-3.5-sonnet" >>
    /\ ~handler'.hasOpenRouter => handler'.candidates = <<>>

\* C1: the handler calls the providers in the fixed priority order, the
\* OpenRouter candidates as configured (OPENROUTER_MODEL split on commas, else
\* the default list), then grok-4, then the fallback; a response of
\* openrouter:m comes only after every candidate before m failed both
\* attempts, one of grok-4 only after every candidate failed, and no provider
\* is called after one has succeeded.
C1_PriorityOrder == []C1_StateOrder /\ [][C1_Configured]_vars

\* the second default candidate answers on its text attempt
C1_Witness ==
  /\ Answered
  /\ resp.json.provider = "openrouter:google/gemini-1.5-pro"
  /\ Len(calls) = 4

\* every call of the chain has been made and has failed
ChainExhausted ==
  /\ Len(calls) = Len(FullChain(handler))
  /\ \A k \in 1..Len(calls) : ~calls[k].ok

\* C2: the response has provider fallback only if OpenRouter is not
\* configured or every candidate failed both attempts, and xAI is not
\* configured or the grok-4 call failed; and for a validated upload with
\* that condition the response is the fallback result with status 200.
C2_FallbackOnlyLast ==
  /\ (Answered /\ resp.json.provider = "fallback") =>
       /\ ChainExhausted
       /\ handler.hasOpenRouter =>
            \A i \in 1..Len(handler.candidates) :
               /\ ~calls[2 * i - 1].ok /\ calls[2 * i - 1].mode = "object"
               /\ ~calls[2 * i].ok /\ calls[2 * i].mode = "text"
       /\ handler.hasXai =>
            /\ calls[Len(calls)].provider = "xai"
            /\ ~calls[Len(calls)].ok
  /\ (handler.pc = "done" /\ handler.file # NoFile /\ ChainExhausted) =>
       /\ resp.kind = "json"
       /\ resp.status = 200
       /\ resp.json.provider = "fallback"

\* the fallback answers after a candidate and grok-4 have failed
C2_Witness ==
  /\ Answered
  /\ resp.json.provider = "fallback"
  /\ handler.hasXai
  /\ Len(calls) = 3

Labels == {"AI-Generated", "Human-Captured", "Uncertain"}

\* C3: every JSON response has an integer score in 0..100, one of the three
\* labels, a reason of 1 to 200 characters, and a provider.
C3_ResponseShape ==
  Answered =>
    /\ resp.json.score \in 0..100
    /\ resp.json.label \in Labels
    /\ resp.json.reason # ""
    /\ Len(resp.json.reason) <= 200
    /\ resp.json.provider # ""
    /\ resp.status = 200

\* a text-parse answer with a reason of 3 characters
C3_Witness ==
  /\ Answered
  /\ calls # <<>>
  /\ calls[Len(calls)].mode = "text"
  /\ Len(resp.json.reason) = 3

\* C4: the label is Human-Captured iff score < 45, Uncertain iff
\* 45 <= score <= 55, AI-Generated iff score > 55, on every path.
C4_LabelOfScore ==
  Answered =>
    /\ (resp.json.label = "Human-Captured") <=> (resp.json.score < 45)
    /\ (resp.json.label = "Uncertain") <=>
         (resp.json.score >= 45 /\ resp.json.score <= 55)
    /\ (resp.json.label = "AI-Generated") <=> (resp.json.score > 55)

\* a text-parse answer rounded up to the first Uncertain score
C4_Witness ==
  /\ Answered
  /\ calls # <<>>
  /\ calls[Len(calls)].mode = "text"
  /\ resp.json.score = 45
  /\ resp.json.label = "Uncertain"

\* the handler takes up the request that is on its way
Accepts == pending.kind = "request" /\ handler.pc = "idle" /\ handler'.pc # "idle"

\* the request is turned down at once: an error response, no call, no score
TurnedDown(status) ==
  /\ handler'.pc = "done"
  /\ resp'.kind = "text"
  /\ resp'.status = status
  /\ calls' = <<>>

C5_ServerGuard ==
  Accepts =>
    LET picked == IF pending.form.image.kind # "absent" THEN pending.form.image
                  ELSE pending.form.file
    IN  (/\ pending.form.multipart
         /\ picked.kind = "file"
         /\ picked.file.bytes.len > 6 * 1024 * 1024
         /\ StartsWith(picked.file.type, "image/")) => TurnedDown(413)

HoldsFile(form) == form.image.kind = "file" \/ form.file.kind = "file"

\* the File of the upload, from field image or else from field file
UploadedFile(form) ==
  IF form.image.kind = "file" THEN form.image.file ELSE form.file.file

C6_Step ==
  Accepts =>
    LET form == pending.form IN
    /\ ~form.multipart =>
         TurnedDown(400) /\ resp'.text = "Expected multipart/form-data"
    /\ (form.multipart /\ ~HoldsFile(form)) =>
         TurnedDown(400) /\ resp'.text = "Missing image"
    /\ (/\ form.multipart
        /\ HoldsFile(form)
        /\ ~StartsWith(UploadedFile(form).type, "image/")) =>
         TurnedDown(400) /\ resp'.text = "Invalid file type"
    /\ (/\ form.multipart
        /\ HoldsFile(form)
        /\ StartsWith(UploadedFile(form).type, "image/")
        /\ UploadedFile(form).bytes.len > maxBytes) => TurnedDown(413)

\* C6: the handler turns an invalid upload down before any provider call or
\* heuristic, in this order: an unparseable body with 400 Expected
\* multipart/form-data, no File in image or file with 400 Missing image, a
\* MIME type outside image/ with 400 Invalid file type, a size above the
\* limit with 413.
C6_ValidationOrder == [][C6_Step]_vars

\* C7: a fallback response equals the fallback response the reference
\* request for the same bytes received, whatever the file name, the MIME
\* type, the environment and the requests in between.
C7_FallbackDeterministic ==
  (/\ Answered
   /\ resp.json.provider = "fallback"
   /\ memo.kind = "fallback"
   /\ memo.bytes = handler.file.bytes) =>
     /\ resp.json.score = memo.json.score
     /\ resp.json.label = memo.json.label
     /\ resp.json.reason = memo.json.reason

\* the same bytes under another name and type, after two provider calls
\* and a grok-4 call have failed
C7_Witness ==
  /\ Answered
  /\ resp.json.provider = "fallback"
  /\ memo.kind = "fallback"
  /\ memo.bytes = handler.file.bytes
  /\ handler.file.name = "b.png"
  /\ handler.file.type = "image/gif"
  /\ handler.file.bytes.len > 0
  /\ Len(calls) = 3

\* the file passed the widget's validation
PassedWidget(f) == StartsWith(f.type, "image/") /\ f.bytes.len <= 5 * 1024 * 1024

\* C8: file is null or passed the widget's validation, previewUrl is set
\* only with file, every request of analyze carries such a file, and the
\* handler accepts it.
C8_ClientHoldsValid ==
  /\ file.isNull \/ PassedWidget(file.f)
  /\ ~previewUrl.isNull => (~file.isNull /\ previewUrl.f = file.f)
  /\ flight.active => PassedWidget(flight.file)
  /\ pending.kind = "request" =>
       /\ pending.form.multipart
       /\ pending.form.image.kind = "file"
       /\ pending.form.image.file = flight.file
       /\ Validate(pending.form).ok
  /\ handler.origin = "widget" =>
       /\ handler.file = flight.file
       /\ handler.pc = "done" => resp.kind = "json"

\* a file of exactly 5*1024*1024 bytes is on its way to the handler
C8_Witness ==
  /\ flight.active
  /\ pending.kind = "request"
  /\ flight.file.bytes.len = 5 * 1024 * 1024
  /\ ~previewUrl.isNull

\* an analyze call comes to its end
EndsCall == flight.active /\ ~flight'.active

C9_Common ==
  /\ EndsCall => loading' = FALSE
  /\ (analyze /\ file.isNull) =>
       /\ error' = SomeText("Please select an image first.")
       /\ pending' = pending
       /\ flight' = flight
       /\ loading' = FALSE
  /\ (EndsCall /\ fetched'.kind = "response" /\ fetched'.status \in 200..299) =>
       /\ ~result'.isNull
       /\ result'.display.score \in 0..100
       /\ error' = error
  /\ (EndsCall /\ fetched'.kind = "response" /\ fetched'.status \notin 200..299) =>
       /\ result' = result
       /\ error' = SomeText(IF fetched'.text # "" THEN fetched'.text
                            ELSE "Request failed")

C9_RejectedAmended ==
  (EndsCall /\ fetched'.kind = "rejected") =>
     /\ result' = result
     /\ error' = SomeText(IF fetched'.text # "" THEN fetched'.text
                          ELSE "Something went wrong.")

C9_RejectedStated ==
  (EndsCall /\ fetched'.kind = "rejected") =>
     /\ result' = result
     /\ error' \in {SomeText("Request failed"), SomeText("Something went wrong.")}

\* C9 as amended: every analyze call ends with loading false; with no file
\* it sets the error Please select an image first. and sends nothing; on a
\* non-OK status it sets error to the body text, or Request failed for an
\* empty body, on a rejected fetch to the error's message, or Something went
\* wrong. for an empty one, and no result; on success it sets result and no
\* error.
C9_AnalyzeOutcome == [][C9_Common /\ C9_RejectedAmended]_vars

\* a fetch has been rejected with a message, and no request is left
C9_Witness ==
  /\ fetched.kind = "rejected"
  /\ fetched.text # ""
  /\ error = SomeText(fetched.text)
  /\ ~loading
  /\ ~flight.active

\* C9 as stated: on a network error too, error is a response body text or
\* one of the two default texts, and there is no response body.
C9_AsStated == [][C9_Common /\ C9_RejectedStated]_vars

IsStrictCall(c) == c.provider = "openrouter" /\ c.mode = "object"
IsOpenRouterCall(c) == c.provider = "openrouter"
IsXaiCall(c) == c.provider = "xai"

C10_Bounded ==
  /\ \A k \in 1..Len(calls) :
       (calls[k].provider = "openrouter" /\ calls[k].mode = "text") =>
          /\ k > 1
          /\ IsStrictCall(calls[k - 1])
          /\ calls[k - 1].model = calls[k].model
          /\ ~calls[k - 1].ok
  /\ LET strict == SelectSeq(calls, IsStrictCall) IN
       /\ Len(strict) <= Len(handler.candidates)
       /\ \A j \in 1..Len(strict) : strict[j].model = handler.candidates[j]
  /\ Len(SelectSeq(calls, IsOpenRouterCall)) <= 2 * Len(handler.candidates)
  /\ Len(SelectSeq(calls, IsXaiCall)) <= 1
  /\ Len(calls) <= 2 * Len(handler.candidates) + 1

\* C10: a text attempt follows the failed strict attempt of the same
\* candidate, each candidate is tried once, a request makes at most
\* 2*|candidates| OpenRouter calls and one grok-4 call, and every request
\* gets a response.
C10_BoundedAndTerminates ==
  /\ []C10_Bounded
  /\ (pending.kind = "request") ~> (handler.pc = "done" /\ resp.kind # "none")

\* the three default candidates and grok-4 have all been called
C10_Witness == handler.pc = "done" /\ Len(calls) = 7 /\ resp.kind = "json"

\* the answer is one the schema is said to take: JSON was extracted, score
\* is a number or a numeric string with 0 <= score <= 100, reason is a string
\* of 3 to 200 characters
NumericString(s) == Trim(s) # "" /\ AllDigits(Trim(s))

ScoreInRange(v) ==
  \/ v.kind = "number" /\ v.twice >= 0 /\ v.twice <= 200
  \/ /\ v.kind = "string"
     /\ NumericString(v.str)
     /\ DecimalValue(Trim(v.str)) <= 100

ReasonInRange(v) == v.kind = "string" /\ Len(v.str) \in 3..200

AcceptableAnswer(out) ==
  /\ ~out.threw
  /\ LET x == extractJsonObject(out.text) IN
       x.kind = "object" /\ ScoreInRange(x.score) /\ ReasonInRange(x.reason)

\* C11: on the text-parse path an answer with no extractable JSON, a score
\* that is not a number or numeric string in 0..100, or a reason outside 3 to
\* 200 characters is never returned: the attempt on it gives no response and
\* moves on to the next candidate.
C11_TextValidated ==
  handler.pc = "text" =>
    \A out \in TextOutcomes :
      ~AcceptableAnswer(out) =>
        /\ ~ENABLED (TextAttemptWith(ParseTable[out]) /\ resp'.kind = "json")
        /\ ENABLED (/\ TextAttemptWith(ParseTable[out])
                    /\ handler' = NextCandidate(handler)
                    /\ resp' = resp)

\* n is the number of i = 0, step, 2*step, ... below len: the last of them
\* is below len and the next one is not
IsVisitCount(n, step, len) ==
  IF len = 0 THEN n = 0
  ELSE n >= 1 /\ (n - 1) * step < len /\ n * step >= len

\* the hash after the bytes of a file of at most three bytes, in plain
\* integers: no wrap-around can occur
PlainHash(b) ==
  LET B(i) == ByteAt(b, i) IN
  CASE b.len = 0 -> 0
    [] b.len = 1 -> B(0)
    [] b.len = 2 -> B(0) * 31 + B(1)
    [] b.len = 3 -> (B(0) * 31 + B(1)) * 31 + B(2)

\* C12: a fallback response is computed from the rolling hash of the file:
\* the step is max(1, floor(len/1024)), the hash lies in 0..2^32-1, at most
\* 2047 bytes are visited, the score is hash mod 101 and lies in 0..100, the
\* reason is entry hash mod 8 of the table of 8 reasons; an empty file has
\* hash 0, score 0, label Human-Captured and the first reason.
C12_FallbackHash ==
  (Answered /\ resp.json.provider = "fallback") =>
    LET b    == handler.file.bytes
        hash == HashTable[b]
        step == IF b.len \div 1024 >= 1 THEN b.len \div 1024 ELSE 1
    IN  /\ StepOf(b) = step
        /\ hash.hi \in 0..65535 /\ hash.lo \in 0..65535
        /\ IsVisitCount(SampleCount(b), step, b.len)
        /\ SampleCount(b) <= 2047
        /\ b.len <= 3 => hash.hi = 0 /\ hash.lo = PlainHash(b)
        /\ resp.json.score = HashMod(hash, 101)
        /\ resp.json.score \in 0..100
        /\ Len(reasons) = 8
        /\ resp.json.reason = reasons[HashMod(hash, 8) + 1]
        /\ b.len = 0 =>
             /\ hash = [hi |-> 0, lo |-> 0]
             /\ resp.json.score = 0
             /\ resp.json.label = "Human-Captured"
             /\ resp.json.reason = "Texture regularity suggests model synthesis."

\* the fallback has answered for the file of 2047 bytes, all of them
\* visited, with a hash that wrapped around
C12_Witness ==
  /\ Answered
  /\ resp.json.provider = "fallback"
  /\ handler.file.bytes.len = 2047
  /\ SampleCount(handler.file.bytes) = 2047
  /\ HashTable[handler.file.bytes].hi > 0

\* C13: whenever a result is held, it was computed from the file that is
\* held in file and shown in the preview.
C13_ResultOfCurrentFile ==
  ~result.isNull =>
    /\ ~file.isNull
    /\ result.of = file.f
    /\ ~previewUrl.isNull
    /\ result.of = previewUrl.f

\* C14: error and result are never both non-null.
C14_ErrorOrResult == ~(~error.isNull /\ ~result.isNull)

HumanVerdicts == {"Human-Captured", "Most Likely Human-Captured"}
UncertainVerdicts == {"Uncertain - borderline case"}
AiVerdicts == {"Most Likely AI-Generated", "AI-Generated"}

\* the verdict of a display belongs to the group of the server's label
VerdictRefines(display, label) ==
  /\ display.verdict \in HumanVerdicts \cup UncertainVerdicts \cup AiVerdicts
  /\ (display.verdict \in HumanVerdicts) <=> (label = "Human-Captured")
  /\ (display.verdict \in UncertainVerdicts) <=> (label = "Uncertain")
  /\ (display.verdict \in AiVerdicts) <=> (label = "AI-Generated")

\* for every score 0..100 and each of the four places that label a score
C15_EveryScore ==
  \A sc \in 0..100 :
    LET display == toDisplay([score |-> sc, label |-> "", reason |-> "",
                              provider |-> ""])
    IN  /\ display.score = sc
        /\ \A label \in {LabelStrict(sc), LabelText(sc), LabelXai(sc),
                          LabelFallback(sc)} :
              VerdictRefines(display, label)

\* a response the widget turns into a result
C15_Step ==
  (EndsCall /\ ~result'.isNull) =>
    /\ resp.kind = "json"
    /\ VerdictRefines(result'.display, resp.json.label)
    /\ result'.display.score = resp.json.score
    /\ result'.display.reason = resp.json.reason

\* C15: for every integer score 0..100 the verdict of toDisplay is one of the
\* two human verdicts exactly when the server's label is Human-Captured, the
\* borderline verdict exactly when it is Uncertain, one of the two AI verdicts
\* exactly when it is AI-Generated, and the score displayed is the score the
\* server returned.
C15_VerdictRefinesLabel == []C15_EveryScore /\ [][C15_Step]_vars

\* a response with label Uncertain and score 45 is displayed as borderline
C15_Witness ==
  /\ ~result.isNull
  /\ result.display.score = 45
  /\ result.display.verdict = "Uncertain - borderline case"
  /\ fetched.kind = "response"

\* C16: for every displayed score the meter is grey exactly when the verdict
\* is a human verdict, amber exactly when it is the borderline verdict, green
\* exactly when it is an AI verdict, and the percentage drawn is the value
\* clamped to 0..100.
C16_MeterAgreesWithVerdict ==
  ~result.isNull =>
    /\ (colorClass = "text-zinc-400") <=>
         (result.display.verdict \in HumanVerdicts)
    /\ (colorClass = "text-amber-300") <=>
         (result.display.verdict \in UncertainVerdicts)
    /\ (colorClass = "text-emerald-400") <=>
         (result.display.verdict \in AiVerdicts)
    /\ clamped(meterValue) \in 0..100
    /\ clamped(meterValue) = result.display.score

====
